---- MODULE Spec2Model ----
(***************************************************************************)
(* Model of streamlit.py, the 5-year revenue forecasting dashboard.        *)
(*                                                                         *)
(* The script is re-run from top to bottom on every user interaction.      *)
(* One run is one atomic step of the model (RunScript); what survives      *)
(* between runs is st.session_state, the navigation widget's selection and *)
(* dataset.csv.  The results of the last run (the normalised columns, the  *)
(* regularised series, the forecast, the page content) are kept in         *)
(* variables so that properties of the pipeline can be stated on them.     *)
(*                                                                         *)
(* Text is modelled as sequences of one-character strings, calendar dates  *)
(* as <<year, month, day>>, a float cell as <<x>> and a missing one (NaN)  *)
(* as <<>>.                                                                *)
(***************************************************************************)
EXTENDS Integers, Sequences, FiniteSets, TLC

\* ------------------------------------------------------------------ bounds

\* Largest number of data rows of dataset.csv.
MaxRows == 3

\* Largest number of auto_arima calls followed within one session.
MaxFitCalls == 2

\* --------------------------------------------------------------- constants

\* streamlit.py:52
n_periods == 60

\* streamlit.py:93 (and the literal 1972 of lines 78 and 98)
min_value == 1972

\* streamlit.py:94
max_value == 1976

\* streamlit.py:75
default_end_year == 1976

\* -------------------------------------------------------------------- text

Range(s) == {s[i] : i \in DOMAIN s}

IsSpace(c) == c \in {" ", "\t"}

\* str.lower(), on the letters the column names below are written with.
LowerChar(c) ==
    CASE c = "M" -> "m"
      [] c = "O" -> "o"
      [] c = "N" -> "n"
      [] c = "T" -> "t"
      [] c = "H" -> "h"
      [] c = "R" -> "r"
      [] c = "D" -> "d"
      [] OTHER -> c

Lower(s) == [i \in DOMAIN s |-> LowerChar(s[i])]

RECURSIVE LStrip(_)
LStrip(s) == IF s # <<>> /\ IsSpace(Head(s)) THEN LStrip(Tail(s)) ELSE s

RECURSIVE RStrip(_)
RStrip(s) ==
    IF s # <<>> /\ IsSpace(s[Len(s)]) THEN RStrip(SubSeq(s, 1, Len(s) - 1)) ELSE s

\* str.strip(): surrounding whitespace only.
Strip(s) == RStrip(LStrip(s))

Month == <<"M", "o", "n", "t", "h">>

month == <<"m", "o", "n", "t", "h">>

Revenue == <<" ", "R", "e", "v", "e", "n", "u", "e", " ">>

\* col.strip().lower() == "month"
IsMonthLike(col) == Lower(Strip(col)) = month

\* ------------------------------------------------------ Column Normalizer

\* Mutant of Rename: every candidate column is renamed, not only col.
RenameEveryCandidate(cols, col) ==
    [i \in DOMAIN cols |-> IF cols[i] = col \/ IsMonthLike(cols[i]) THEN Month ELSE cols[i]]

\* data.rename(columns={col: "Month"}): every column carrying the label.
Rename(cols, col) == [i \in DOMAIN cols |-> IF cols[i] = col THEN Month ELSE cols[i]]

\* The for loop of line 29: the position of the first column that matches,
\* 0 when the loop runs to its else branch.
FirstMonthLike(cols) ==
    IF \E i \in DOMAIN cols : IsMonthLike(cols[i])
    THEN CHOOSE i \in DOMAIN cols :
            /\ IsMonthLike(cols[i])
            /\ \A j \in DOMAIN cols : j < i => ~IsMonthLike(cols[j])
    ELSE 0

\* Mutant of NormalizeColumns: the else branch of the loop does not stop.
NormalizeWithoutStop(cols) ==
    IF Month \in Range(cols) \/ FirstMonthLike(cols) = 0
    THEN [stopped |-> FALSE, columns |-> cols]
    ELSE [stopped |-> FALSE, columns |-> Rename(cols, cols[FirstMonthLike(cols)])]

\* Lines 28-35.  stopped: st.error + st.stop were reached.
NormalizeColumns(cols) ==
    IF Month \in Range(cols)
    THEN [stopped |-> FALSE, columns |-> cols]
    ELSE IF FirstMonthLike(cols) = 0
         THEN [stopped |-> TRUE, columns |-> cols]
         ELSE [stopped |-> FALSE, columns |-> Rename(cols, cols[FirstMonthLike(cols)])]

\* ------------------------------------------------------------------ dates

IsLeap(y) == (y % 4 = 0 /\ y % 100 # 0) \/ y % 400 = 0

DaysInMonth(y, m) ==
    IF m = 2 THEN (IF IsLeap(y) THEN 29 ELSE 28)
    ELSE IF m \in {4, 6, 9, 11} THEN 30 ELSE 31

IsMonthEnd(d) == d[3] = DaysInMonth(d[1], d[2])

DateLT(a, b) ==
    \/ a[1] < b[1]
    \/ a[1] = b[1] /\ a[2] < b[2]
    \/ a[1] = b[1] /\ a[2] = b[2] /\ a[3] < b[3]

\* The last day of the month k months after month m of year y (k may be < 0).
MonthEndAfter(y, m, k) ==
    LET t == y * 12 + (m - 1) + k
        yy == t \div 12
        mm == (t % 12) + 1
    IN <<yy, mm, DaysInMonth(yy, mm)>>

\* date + pd.offsets.MonthEnd(-1): the last day of the previous month, also
\* for a date that already is a month end.
MonthEndOffset(d) == MonthEndAfter(d[1], d[2], -1)

\* pd.date_range(start=start, periods=periods, freq="M"): start rolled forward
\* to a month end, then consecutive month ends.
DateRange(start, periods) ==
    [i \in 1..periods |-> MonthEndAfter(start[1], start[2], i - 1)]

\* -------------------------------------------------------- Time Series Loader

NaN == <<>>

DigitValue(c) ==
    CASE c = "0" -> 0 [] c = "1" -> 1 [] c = "2" -> 2 [] c = "3" -> 3
      [] c = "4" -> 4 [] c = "5" -> 5 [] c = "6" -> 6 [] c = "7" -> 7
      [] c = "8" -> 8 [] c = "9" -> 9

RECURSIVE ParseDigits(_, _)
ParseDigits(s, acc) ==
    IF s = <<>> THEN acc ELSE ParseDigits(Tail(s), acc * 10 + DigitValue(Head(s)))

\* .replace({"\$": "", ",": ""}, regex=True): every "$" and "," removed.
ReplaceCurrency(cell) == SelectSeq(cell, LAMBDA c : c \notin {"$", ","})

\* .astype(float), on an empty cell (read as NaN) or a string of digits.
AsFloat(cell) == IF cell = <<>> THEN NaN ELSE <<ParseDigits(cell, 0)>>

\* Lines 38-44: the "Month" cells become the index, the " Revenue " cells
\* floats.  pd.to_datetime is modelled on cells that already are calendar
\* dates.
LoadSeries(csvRows) ==
    [i \in DOMAIN csvRows |->
        [Month |-> csvRows[i].Month,
         Revenue |-> AsFloat(ReplaceCurrency(csvRows[i].Revenue))]]

\* ------------------------------------------------------ Series Regularizer

\* Line 47: data.index + pd.offsets.MonthEnd(-1)
ShiftIndex(s) == [i \in DOMAIN s |-> [s[i] EXCEPT !.Month = MonthEndOffset(@)]]

RECURSIVE DropSeen(_, _)
DropSeen(s, seen) ==
    IF s = <<>> THEN <<>>
    ELSE IF Head(s).Month \in seen
         THEN DropSeen(Tail(s), seen)
         ELSE <<Head(s)>> \o DropSeen(Tail(s), seen \cup {Head(s).Month})

RECURSIVE DropLater(_)
DropLater(s) ==
    IF s = <<>> THEN <<>>
    ELSE IF \E i \in 2..Len(s) : s[i].Month = Head(s).Month
         THEN DropLater(Tail(s))
         ELSE <<Head(s)>> \o DropLater(Tail(s))

\* Mutant of DropDuplicated: keep="last".
DropDuplicatedKeepLast(s) == DropLater(s)

\* Line 48: data[~data.index.duplicated(keep="first")]
DropDuplicated(s) == DropSeen(s, {})

RECURSIVE FillFrom(_, _)
FillFrom(s, last) ==
    IF s = <<>> THEN <<>>
    ELSE IF Head(s).Revenue = NaN
         THEN <<[Head(s) EXCEPT !.Revenue = last]>> \o FillFrom(Tail(s), last)
         ELSE <<Head(s)>> \o FillFrom(Tail(s), Head(s).Revenue)

Reverse(s) == [i \in DOMAIN s |-> s[Len(s) + 1 - i]]

\* Mutant of Ffill: method="bfill".
Bfill(s) == Reverse(FillFrom(Reverse(s), NaN))

\* Line 49: fillna(method="ffill")
Ffill(s) == FillFrom(s, NaN)

\* Lines 47-49.
Regularize(s) == Ffill(DropDuplicated(ShiftIndex(s)))

\* -------------------------------------------------- Forecast Engine Adapter

\* auto_arima is an external estimator.  What the script depends on: the call
\* either returns a model object or raises, and it raises on a series that
\* holds a missing value (pmdarima validates its input as all finite).
FitRaises(s) == \E i \in DOMAIN s : s[i].Revenue = NaN

\* The model object returned by the k-th call of auto_arima of the session.
Fit(s, k) == [endog |-> [i \in DOMAIN s |-> s[i].Revenue], fit_no |-> k]

\* model.predict(n_periods=n): n point forecasts.  The values stand for the
\* estimator's (the last observation carried forward); only their number and
\* their dependence on the model object are relied on.
Predict(model, n) == [i \in 1..n |-> model.endog[Len(model.endog)]]

\* ------------------------------------------------------- Forecast Assembler

\* Mutant of ForecastIndex: periods=n_periods and no [1:], so the index starts
\* on the last historical date.
ForecastIndexFromStart(s) == DateRange(s[Len(s)].Month, n_periods)

\* Lines 68-70: date_range(start=data.index[-1], periods=n_periods + 1)[1:]
ForecastIndex(s) == Tail(DateRange(s[Len(s)].Month, n_periods + 1))

\* Line 71: pd.Series(forecast, index=forecast_index); the lengths must agree.
MakeSeries(values, index) ==
    [i \in DOMAIN index |-> [Date |-> index[i], Forecast |-> values[i]]]

\* --------------------------------------------------------------- the pages

\* Lines 105-108: (index.year >= lo) & (index.year <= hi)
YearBetween(fs, lo, hi) == SelectSeq(fs, LAMBDA r : r.Date[1] >= lo /\ r.Date[1] <= hi)

\* Mutant of YearIsIn: range(lo, hi), which leaves the end year out.
YearIsInHalfOpen(fs, lo, hi) == SelectSeq(fs, LAMBDA r : r.Date[1] \in lo..(hi - 1))

\* Lines 140-144: Date.dt.year.isin(range(lo, hi + 1))
YearIsIn(fs, lo, hi) == SelectSeq(fs, LAMBDA r : r.Date[1] \in lo..hi)

\* Line 122: index.year == year
YearEquals(fs, year) == SelectSeq(fs, LAMBDA r : r.Date[1] = year)

\* st.session_state[key] = value
Put(ss, key, value) ==
    [k \in DOMAIN ss \cup {key} |-> IF k = key THEN value ELSE ss[k]]

\* Mutant of PageWelcome: the page puts the end year back to its default.
PageWelcomeResetsYear(env) ==
    [env EXCEPT !.rendered = "Welcome",
                !.session_state = Put(@, "selected_end_year", default_end_year)]

\* Lines 81-85.
PageWelcome(env) == [env EXCEPT !.rendered = "Welcome"]

\* Lines 87-130.  slider: <<>> when the slider keeps the value it is given,
\* <<v>> when the user has dragged it to v.
PagePredictedData(env, slider) ==
    LET end == IF slider = <<>> THEN env.session_state["selected_end_year"]
               ELSE slider[1]
        years == <<min_value, end>>
    IN [env EXCEPT
          !.rendered = "Predicted Data",
          !.session_state = Put(@, "selected_end_year", end),
          !.selected_years = years,
          !.figures = <<YearBetween(env.forecast_series, years[1], years[2])>>
                      \o [k \in 1..(years[2] + 1 - years[1]) |->
                            YearEquals(env.forecast_series, years[1] + k - 1)]]

\* Lines 132-158.
PageForecastTable(env) ==
    [env EXCEPT
       !.rendered = "Forecast Table",
       !.filtered_df = YearIsIn(env.forecast_series,
                                env.selected_years[1], env.selected_years[2])]

Pages == {"Welcome", "Predicted Data", "Forecast Table"}

Page(page, env, slider) ==
    CASE page = "Welcome" -> PageWelcome(env)
      [] page = "Predicted Data" -> PagePredictedData(env, slider)
      [] page = "Forecast Table" -> PageForecastTable(env)

\* -------------------------------------------------------------- the script

\* What a run leaves when it ends before anything is produced.
Blank(ss) ==
    [outcome |-> "none", data_columns |-> <<>>, data |-> <<>>, fits |-> 0,
     forecast_series |-> <<>>, session_state |-> ss, selected_years |-> <<>>,
     rendered |-> "none", figures |-> <<>>, filtered_df |-> <<>>]

\* Lines 65-158, with a model in the session state.
ForecastAndRender(env, page, slider) ==
    LET model == env.session_state["model"]
        forecast == Predict(model, n_periods)
        forecast_index == ForecastIndex(env.data)
        ss == IF "selected_end_year" \notin DOMAIN env.session_state
              THEN Put(env.session_state, "selected_end_year", default_end_year)
              ELSE env.session_state
        env1 == [env EXCEPT
                   !.forecast_series = MakeSeries(forecast, forecast_index),
                   !.session_state = ss,
                   !.selected_years = <<min_value, ss["selected_end_year"]>>]
    IN IF Len(forecast) # Len(forecast_index)
       THEN [env EXCEPT !.outcome = "error"]
       ELSE [Page(page, env1, slider) EXCEPT !.outcome = "done"]

\* Lines 51-63, then the rest.  k: the number of this auto_arima call.
FitAndForecast(env, page, slider, k) ==
    IF "model" \in DOMAIN env.session_state
    THEN ForecastAndRender(env, page, slider)
    ELSE IF FitRaises(env.data)
         THEN [env EXCEPT !.outcome = "error", !.fits = 1]
         ELSE ForecastAndRender(
                [env EXCEPT !.fits = 1,
                            !.session_state = Put(@, "model", Fit(env.data, k))],
                page, slider)

\* One run of the script, lines 24-158, on dataset.csv = (cols, csvRows) with
\* session state ss: the outcome and everything the run produced.
Script(cols, csvRows, ss, page, slider, k) ==
    LET norm == NormalizeColumns(cols)
    IN IF norm.stopped
       THEN [Blank(ss) EXCEPT !.outcome = "stopped"]
       ELSE IF Month \notin Range(norm.columns) \/ Revenue \notin Range(norm.columns)
            THEN [Blank(ss) EXCEPT !.outcome = "error", !.data_columns = norm.columns]
            ELSE FitAndForecast(
                   [Blank(ss) EXCEPT !.data_columns = norm.columns,
                                     !.data = Regularize(LoadSeries(csvRows))],
                   page, slider, k)

\* ------------------------------------------------------------- dataset.csv

\* Headers of dataset.csv (read_csv yields distinct column labels): "Month"
\* itself, one column to rename, two candidates after the revenue column,
\* "Month" beside a candidate, no candidate (twice), and no " Revenue ".
Headers ==
    { <<Month, Revenue>>,
      <<month, Revenue>>,
      <<Revenue, <<" ", "M", "O", "N", "T", "H", " ">>, <<"\t", "m", "o", "n", "t", "h">>>>,
      <<month, Month, Revenue>>,
      <<<<"D", "a", "t", "e">>, Revenue>>,
      <<<<"M", "o", "n", " ", "t", "h">>, Revenue>>,
      <<month, <<"R", "e", "v", "e", "n", "u", "e">>>> }

\* Rows of dataset.csv: a month end, a day of the next month with and without
\* a value, and two days of the month after that with different values; the
\* revenue cells are "$1,000", "200" and the empty cell.
CsvRow ==
    { [Month |-> <<1971, 12, 31>>, Revenue |-> <<"$", "1", ",", "0", "0", "0">>],
      [Month |-> <<1972, 1, 15>>, Revenue |-> <<"2", "0", "0">>],
      [Month |-> <<1972, 1, 15>>, Revenue |-> <<>>],
      [Month |-> <<1972, 2, 29>>, Revenue |-> <<"$", "1", ",", "0", "0", "0">>],
      [Month |-> <<1972, 2, 1>>, Revenue |-> <<"2", "0", "0">>] }

CsvRows == UNION { [1..n -> CsvRow] : n \in 1..MaxRows }

\* ------------------------------------------------------------------- state

VARIABLES
    columns,          \* dataset.csv: its header
    rows,             \* dataset.csv: its data rows
    session_state,    \* st.session_state, a dictionary
    selected_page,    \* the option_menu's selection
    outcome,          \* how the last run ended: none, stopped, error, done
    data_columns,     \* data.columns after line 35 in the last run
    data,             \* data after line 49 in the last run
    forecast_series,  \* forecast_series of the last run
    selected_years,   \* selected_years at the end of the last run
    rendered,         \* the page whose content the last run rendered
    figures,          \* the series plotted by the last run
    filtered_df,      \* the rows shown and offered for download by the last run
    fitCalls,         \* history: the auto_arima calls of the session
    sliderMoved       \* history: the user has moved the slider

vars ==
    <<columns, rows, session_state, selected_page, outcome, data_columns, data,
      forecast_series, selected_years, rendered, figures, filtered_df, fitCalls,
      sliderMoved>>

\* A new session: nothing has run, the menu is on its default_index 0.
Init ==
    /\ columns \in Headers
    /\ rows \in CsvRows
    /\ session_state = [k \in {} |-> 0]
    /\ selected_page = "Welcome"
    /\ outcome = "none"
    /\ data_columns = <<>>
    /\ data = <<>>
    /\ forecast_series = <<>>
    /\ selected_years = <<>>
    /\ rendered = "none"
    /\ figures = <<>>
    /\ filtered_df = <<>>
    /\ fitCalls = 0
    /\ sliderMoved = FALSE

\* Runs are followed while the session's auto_arima calls stay within the bound.
CanRun == "model" \in DOMAIN session_state \/ fitCalls < MaxFitCalls

\* One run of the script with the menu on page and the slider input slider.
RunScript(page, slider) ==
    /\ CanRun
    /\ \E r \in {Script(columns, rows, session_state, page, slider, fitCalls + 1)} :
          /\ session_state' = r.session_state
          /\ outcome' = r.outcome
          /\ data_columns' = r.data_columns
          /\ data' = r.data
          /\ forecast_series' = r.forecast_series
          /\ selected_years' = r.selected_years
          /\ rendered' = r.rendered
          /\ figures' = r.figures
          /\ filtered_df' = r.filtered_df
          /\ fitCalls' = fitCalls + r.fits
          /\ sliderMoved' = (sliderMoved \/ (slider # <<>> /\ r.rendered = "Predicted Data"))
    /\ selected_page' = page
    /\ UNCHANGED <<columns, rows>>

\* The browser opens the app: the first run of the session.
Open ==
    /\ outcome = "none"
    /\ RunScript(selected_page, <<>>)

\* The user picks another page in the sidebar.
Navigate(p) ==
    /\ outcome # "none"
    /\ p # selected_page
    /\ RunScript(p, <<>>)

\* The user drags the slider of the Predicted Data page to v.
MoveSlider(v) ==
    /\ rendered = "Predicted Data"
    /\ v # session_state["selected_end_year"]
    /\ RunScript(selected_page, <<v>>)

\* The user clicks the download button of the Forecast Table page.
ClickDownload ==
    /\ rendered = "Forecast Table"
    /\ RunScript(selected_page, <<>>)

Next ==
    \/ Open
    \/ \E p \in Pages : Navigate(p)
    \/ \E v \in min_value..max_value : MoveSlider(v)
    \/ ClickDownload

Spec == Init /\ [][Next]_vars

\* ------------------------------------------------------------ the claims

\* dataset.csv has a column whose trimmed lowercase name is "month".
HasMonthLike == \E i \in DOMAIN columns : IsMonthLike(columns[i])

\* The script has run at least once.
Ran == outcome # "none"

\* The date-keyed series handed to the regularizer: data before line 47.
Loaded == LoadSeries(rows)

\* The keys after the month-end shift of line 47.
Shifted == ShiftIndex(Loaded)

\* The series after lines 47-48, before the forward fill.
Deduplicated == DropDuplicated(Shifted)

\* The position of the first row of Shifted that carries key.
FirstRowOf(key) ==
    CHOOSE i \in DOMAIN Shifted :
        /\ Shifted[i].Month = key
        /\ \A j \in DOMAIN Shifted : j < i => Shifted[j].Month # key

\* The number of the calendar month of a date.
MonthNumber(d) == d[1] * 12 + d[2]

\* The session's end year, once set.
EndYear == session_state["selected_end_year"]

\* C1: over any sequence of runs of one session, auto_arima is called at most
\* once.  (Violated: a fit that raises stores no model, and the next run that
\* reaches the fit step calls auto_arima again.)
C1_FitAtMostOnce == fitCalls <= 1

\* C2: when dataset.csv has a column whose trimmed lowercase name is "month",
\* the normalizer's output has a column named exactly "Month", as many columns
\* as the input, and every column but the renamed one keeps its name and its
\* position; a column whose name changes was month-like and is now "Month".
C2_NormalizerRename ==
    (Ran /\ HasMonthLike) =>
        /\ Len(data_columns) = Len(columns)
        /\ Month \in Range(data_columns)
        /\ \E i \in DOMAIN columns :
              \A j \in DOMAIN columns \ {i} : data_columns[j] = columns[j]
        /\ \A j \in DOMAIN columns :
              data_columns[j] # columns[j] =>
                 IsMonthLike(columns[j]) /\ data_columns[j] = Month

\* C2 witness: a run on a header without "Month" and with two candidates after
\* the revenue column: the first is renamed, the second keeps its name.
C2_Witness ==
    /\ Ran
    /\ Month \notin Range(columns)
    /\ Len(columns) = 3
    /\ IsMonthLike(columns[2]) /\ IsMonthLike(columns[3])
    /\ data_columns = <<columns[1], Month, columns[3]>>

\* C3: when dataset.csv has no column whose trimmed lowercase name is "month",
\* every run stops at the error: no table, no series, no fit (the session
\* state stays empty), no forecast and no page content.
C3_MissingMonthHalts ==
    (Ran /\ ~HasMonthLike) =>
        /\ outcome = "stopped"
        /\ data_columns = <<>>
        /\ data = <<>>
        /\ fitCalls = 0
        /\ DOMAIN session_state = {}
        /\ forecast_series = <<>>
        /\ selected_years = <<>>
        /\ rendered = "none"
        /\ figures = <<>>
        /\ filtered_df = <<>>

\* C3 witness: such a session after the user has navigated to the table page.
C3_Witness ==
    /\ ~HasMonthLike
    /\ outcome = "stopped"
    /\ selected_page = "Forecast Table"

\* C4: applying the regularizer to the series of a completed run, its own
\* output, yields the same series.
\* (Violated: MonthEnd(-1) moves a month end to the previous month end.)
C4_RegularizerIdempotent == outcome = "done" => Regularize(data) = data

\* C5: in a completed run the regularizer's output index is a strictly
\* increasing sequence of month-end dates, so its last row is the latest date.  (Violated: the rows
\* are never sorted.)
C5_IndexStrictlyIncreasing ==
    outcome = "done" =>
        /\ \A i \in DOMAIN data : IsMonthEnd(data[i].Month)
        /\ \A i \in 1..(Len(data) - 1) : DateLT(data[i].Month, data[i + 1].Month)
        /\ \A i \in 1..(Len(data) - 1) : DateLT(data[i].Month, data[Len(data)].Month)

\* C6: after a completed run the forecast index holds exactly 60 month-end
\* dates, the first in the month after the last row's (month-end) date, each
\* next one in the following month, all strictly after that date, and as many
\* as the values predict returns.
C6_ForecastDates ==
    outcome = "done" =>
        LET last == data[Len(data)].Month
            fs == forecast_series
        IN /\ IsMonthEnd(last)
           /\ Len(fs) = 60
           /\ Len(fs) = Len(Predict(session_state["model"], n_periods))
           /\ MonthNumber(fs[1].Date) = MonthNumber(last) + 1
           /\ \A i \in DOMAIN fs : IsMonthEnd(fs[i].Date) /\ DateLT(last, fs[i].Date)
           /\ \A i \in 1..(Len(fs) - 1) :
                 /\ MonthNumber(fs[i + 1].Date) = MonthNumber(fs[i].Date) + 1
                 /\ DateLT(fs[i].Date, fs[i + 1].Date)

\* C6 witness: a forecast anchored on 1971-12-31 that runs over the leap day
\* of 1972 to 1976-12-31.
C6_Witness ==
    /\ outcome = "done"
    /\ data[Len(data)].Month = <<1971, 12, 31>>
    /\ forecast_series[1].Date = <<1972, 1, 31>>
    /\ forecast_series[2].Date = <<1972, 2, 29>>
    /\ forecast_series[60].Date = <<1976, 12, 31>>

\* C7 as claimed: the regularized series holds one row per shifted key, in the
\* order of the keys' first rows, and the value of a key that several rows
\* share is that of the first of them.  (Violated: when the first of them has
\* a missing value, the row is forward-filled.)
C7_FirstValueKept ==
    data # <<>> =>
        /\ Len(data) = Cardinality({Shifted[i].Month : i \in DOMAIN Shifted})
        /\ \A p \in DOMAIN data :
              /\ \E i \in DOMAIN Shifted : Shifted[i].Month = data[p].Month
              /\ Cardinality({i \in DOMAIN Shifted : Shifted[i].Month = data[p].Month}) > 1
                    => data[p].Revenue = Shifted[FirstRowOf(data[p].Month)].Revenue
        /\ \A p, q \in DOMAIN data :
              p < q => FirstRowOf(data[p].Month) < FirstRowOf(data[q].Month)

\* C7 amended: the regularized series holds one row per shifted key, in the
\* order of the keys' first rows; its value is that of the key's first row
\* when that value is present, and otherwise the forward-filled value: that
\* of the regularized row before it, missing when there is none.
C7_DedupKeepsFirst ==
    data # <<>> =>
        /\ Len(data) = Cardinality({Shifted[i].Month : i \in DOMAIN Shifted})
        /\ \A p \in DOMAIN data :
              /\ \E i \in DOMAIN Shifted : Shifted[i].Month = data[p].Month
              /\ LET first == Shifted[FirstRowOf(data[p].Month)].Revenue
                 IN data[p].Revenue =
                       IF first # NaN THEN first
                       ELSE IF p = 1 THEN NaN ELSE data[p - 1].Revenue
        /\ \A p, q \in DOMAIN data :
              p < q => FirstRowOf(data[p].Month) < FirstRowOf(data[q].Month)

\* C7 witness: two rows of different days and different values share a shifted
\* key, and only the first of them is in the regularized series.
C7_Witness ==
    /\ Len(rows) = 3
    /\ Len(data) = 2
    /\ rows[2].Month # rows[3].Month
    /\ Shifted[2].Month = Shifted[3].Month
    /\ Shifted[2].Revenue # NaN /\ Shifted[3].Revenue # NaN
    /\ Shifted[2].Revenue # Shifted[3].Revenue
    /\ data[2] = Shifted[2]

\* C8: after regularization a row whose value was present is unchanged, a row
\* whose value was missing holds the value of the nearest row before it (in
\* row order, after deduplication) whose value was present, and stays missing
\* when there is no such row.
C8_ForwardFill ==
    data # <<>> =>
        /\ Len(data) = Len(Deduplicated)
        /\ \A i \in DOMAIN Deduplicated :
              LET before == {j \in 1..(i - 1) : Deduplicated[j].Revenue # NaN}
              IN /\ data[i].Month = Deduplicated[i].Month
                 /\ data[i].Revenue =
                       IF Deduplicated[i].Revenue # NaN THEN Deduplicated[i].Revenue
                       ELSE IF before = {} THEN NaN
                       ELSE Deduplicated[CHOOSE j \in before :
                                            \A k \in before : k <= j].Revenue

\* C8 witness: values 1000, 200, missing become 1000, 200, 200.
C8_Witness ==
    /\ Len(Deduplicated) = 3
    /\ Deduplicated[1].Revenue = <<1000>>
    /\ Deduplicated[2].Revenue = <<200>>
    /\ Deduplicated[3].Revenue = NaN
    /\ Len(data) = 3
    /\ data[3].Revenue = <<200>>

\* The positions of the forecast rows whose year lies in lo..hi.
InYears(lo, hi) == {i \in DOMAIN forecast_series : forecast_series[i].Date[1] \in lo..hi}

\* The position of a row in the forecast (its dates are distinct).
PositionOf(row) == CHOOSE i \in DOMAIN forecast_series : forecast_series[i] = row

\* C9: on the Forecast Table page the exported rows are exactly the forecast
\* rows whose year lies in [1972, end year], in forecast order; the series and
\* the forecast are what the pipeline produced, untouched by the filter.
C9_YearWindowExport ==
    rendered = "Forecast Table" =>
        LET S == InYears(min_value, EndYear)
        IN /\ selected_years = <<min_value, EndYear>>
           /\ Len(filtered_df) = Cardinality(S)
           /\ Range(filtered_df) = {forecast_series[i] : i \in S}
           /\ \A k \in 1..(Len(filtered_df) - 1) :
                 PositionOf(filtered_df[k]) < PositionOf(filtered_df[k + 1])
           /\ data = Regularize(Loaded)
           /\ Len(forecast_series) = n_periods
           /\ forecast_series =
                 MakeSeries(Predict(session_state["model"], n_periods), ForecastIndex(data))

\* C9 witness: a forecast from 1971-12 to 1976-11 exported with end year 1974:
\* the 36 months of 1972 to 1974.
C9_Witness ==
    /\ rendered = "Forecast Table"
    /\ EndYear = 1974
    /\ forecast_series[1].Date = <<1971, 12, 31>>
    /\ Len(filtered_df) = 36
    /\ filtered_df[1].Date = <<1972, 1, 31>>
    /\ filtered_df[36].Date = <<1974, 12, 31>>
    /\ Len(forecast_series) = 60

\* What C10 says of every state.
YearWindowInv ==
    /\ "selected_end_year" \in DOMAIN session_state =>
          /\ EndYear \in 1972..1976
          /\ ~sliderMoved => EndYear = 1976
    /\ selected_years # <<>> => selected_years = <<1972, EndYear>>
    /\ rendered = "Forecast Table" =>
          filtered_df = YearIsIn(forecast_series, 1972, EndYear)

\* What C10 says of every step: a set end year stays set, and only a run that
\* renders the Predicted Data page changes it.
YearWindowStep ==
    "selected_end_year" \in DOMAIN session_state =>
        /\ "selected_end_year" \in DOMAIN session_state'
        /\ session_state'["selected_end_year"] # EndYear =>
              selected_page' = "Predicted Data" /\ rendered' = "Predicted Data"

\* C10: the year window is always (1972, end year) with end year in
\* 1972..1976, 1976 until the slider is first moved; only a run of the
\* Predicted Data page changes the end year, and the Forecast Table filter
\* uses the end year of the session state.
C10_YearWindowState == [](YearWindowInv) /\ [][YearWindowStep]_vars

\* C10 witness: the table page filtered with an end year chosen earlier on the
\* Predicted Data page.
C10_Witness ==
    /\ sliderMoved
    /\ rendered = "Forecast Table"
    /\ EndYear = 1973
    /\ selected_years = <<1972, 1973>>
    /\ \A k \in DOMAIN filtered_df : filtered_df[k].Date[1] <= 1973

====
